---- MODULE Spec2Model ----
(***************************************************************************)
(* Model of axio-logger.py, the AXIO MET AX-178 multimeter logger:         *)
(* synchronize (frame alignment through the port's read timeout), the      *)
(* modes table, the decoding chain of process and the interrupt handling   *)
(* of main.                                                                *)
(*                                                                         *)
(* A frame is a sequence of 8 bytes (0..255).  A Python float is the       *)
(* double that results from an integer m by a sequence of IEEE operations; *)
(* it is modelled as [s, m, ops]: the sign s (so that -0.0 is told from    *)
(* 0.0), the integer m and the operations ops applied to it, in order,     *)
(* each rounded as the double operation rounds: m/100/10 and m/1000 are    *)
(* different values here, as 7/100/10 = 0.007000000000000001 and           *)
(* 7/1000 = 0.007 are in the program.  Two values with the same s, m and   *)
(* ops are the same double.                                                *)
(***************************************************************************)
EXTENDS Integers, Sequences, FiniteSets, TLC

VARIABLES
    pc,          \* position of the program: the statement about to run, or the read in flight
    args,        \* parsed command line (csv, iso_time, raw, unix_time)
    timeout,     \* port.timeout
    port_open,   \* the serial port is open
    exit_status, \* -1 while running, else the exit status of the process
    a,           \* result of the last 8-byte read
    out,         \* what the last step printed on stdout
    err,         \* what the last step printed on stderr
    rd,          \* the last port.read: who issued it, size asked, size got, timeout in force
    retries,     \* short 8-byte reads seen by the synchronize call in progress / just ended
    resync,      \* a short read has occurred in the loop of process (steady state was lost)
    ipc,         \* the position at which KeyboardInterrupt arrived ("" if none)
    frame,       \* decoder harness: the frame under decoding
    res          \* decoder harness: the decoding of frame

vars == <<pc, args, timeout, port_open, exit_status, a, out, err, rd, retries,
          resync, ipc, frame, res>>

----------------------------------------------------------------------------
(* Bounds of the model *)

\* special bits set at once in a frame drawn for the decoder
MaxBitsSet == 3
\* special bits set at once in a frame delivered to the driver
DriverBitsSet == 1
\* digit fields drawn for the decoder
NumDigitSamples == 3
\* short 8-byte reads inside one synchronize call
MaxRetries == 2

----------------------------------------------------------------------------
(* Program constants *)

ShortTimeout == 50
SteadyTimeout == 400
JunkSize == 16
FrameSize == 8

\* serial.Serial(...) is built without timeout=: port.timeout is None
NoTimeout == -1

----------------------------------------------------------------------------
(* bitarray, little-endian *)

Pow2(i) == 2 ^ i

\* bitarray(endian='little').frombytes(b): bit i is bit (i mod 8) of byte i div 8
frombytes(b) ==
    [i \in 0 .. (8 * Len(b) - 1) |-> (b[(i \div 8) + 1] \div Pow2(i % 8)) % 2]

\* number of bits of a bitarray
NBits(bits) == Cardinality(DOMAIN bits)

\* bitarray.tobytes(): 8 bits a byte, the last byte padded with zeros
tobytes(bits) ==
    LET n == NBits(bits)
        bitAt(i) == IF i < n THEN bits[i] ELSE 0
        byteAt(j) == bitAt(8*j) + 2 * bitAt(8*j + 1) + 4 * bitAt(8*j + 2)
                     + 8 * bitAt(8*j + 3) + 16 * bitAt(8*j + 4) + 32 * bitAt(8*j + 5)
                     + 64 * bitAt(8*j + 6) + 128 * bitAt(8*j + 7)
    IN  [j \in 1 .. ((n + 7) \div 8) |-> byteAt(j - 1)]

\* bitarray('0101...'): the string's characters, from index 0
bitarray(s) == [i \in 0 .. (Len(s) - 1) |-> s[i + 1]]

\* ba[lo:hi]
slice(bits, lo, hi) == [i \in 0 .. (hi - lo - 1) |-> bits[lo + i]]

\* bit_bytes(bits): the bytes of a bit string
bit_bytes(bits) == tobytes(bitarray(bits))

----------------------------------------------------------------------------
(* class Mode and the modes table *)

Mode(unit, divisor) == [unit |-> unit, divisor |-> divisor]

ModeEntries == <<
    << <<0,0,1,0,1,0,0,0,0>>, Mode("V AC", 10000) >>,
    << <<0,0,1,0,1,0,0,0,1>>, Mode("%", 100) >>,
    << <<0,0,1,0,1,0,0,1,0>>, Mode("mV DC", 1000) >>,
    << <<0,0,1,0,1,0,0,1,1>>, Mode("nF", 100) >>,
    << <<0,0,1,0,1,0,1,0,0>>, Mode("V DC", 10000) >>,
    << <<0,0,1,0,1,0,1,0,1>>, Mode("Ohm", 100) >>,
    << <<0,0,1,0,1,0,1,1,0>>, Mode("mV AC DC", 100) >>,
    << <<0,0,1,0,1,0,1,1,1>>, Mode("uA AC", 100) >>,
    << <<0,0,1,0,1,1,0,0,0>>, Mode("dBm", 100) >>,
    << <<0,0,1,0,1,1,0,0,1>>, Mode("VF", 10000) >>,
    << <<0,0,1,0,1,1,0,1,0>>, Mode("mV AC", 1000) >>,
    << <<0,0,1,0,1,1,0,1,1>>, Mode("uA DC", 100) >>,
    << <<0,0,1,0,1,1,1,0,0>>, Mode("A DC", 10000) >>,
    << <<0,0,1,0,1,1,1,1,0>>, Mode("Hz", 1000) >>,
    << <<0,0,1,0,1,1,1,1,1>>, Mode("uA AC DC", 100) >>
>>

\* the table with the divisor of Hz mistyped
modes_mut ==
    [k \in {bit_bytes(ModeEntries[i][1]) : i \in DOMAIN ModeEntries} |->
        LET m == ModeEntries[CHOOSE i \in DOMAIN ModeEntries :
                                bit_bytes(ModeEntries[i][1]) = k][2]
        IN  IF m.unit = "Hz" THEN Mode("Hz", 100) ELSE m]

\* the dict: keyed by the bytes of the 9-bit pattern
modes ==
    [k \in {bit_bytes(ModeEntries[i][1]) : i \in DOMAIN ModeEntries} |->
        ModeEntries[CHOOSE i \in DOMAIN ModeEntries : bit_bytes(ModeEntries[i][1]) = k][2]]

----------------------------------------------------------------------------
(* Values: int, float and str *)

Float(s, m, ops) == [type |-> "float", s |-> s, m |-> m, ops |-> ops]
IntVal(n) == [type |-> "int", s |-> 1, m |-> n, ops |-> <<>>]
OVERFLOW == [type |-> "str", s |-> 1, m |-> 0, ops |-> <<>>]
\* no value at all
NoValue == [type |-> "", s |-> 1, m |-> 0, ops |-> <<>>]

\* one floating-point operation by the integer d
Op(op, d) == [op |-> op, by |-> d]

\* value / d: true division, the result is a float, rounded once more
Div(v, d) == Float(v.s, v.m, Append(v.ops, Op("/", d)))
\* value * d on a float, rounded once more
Mul(v, d) == Float(v.s, v.m, Append(v.ops, Op("*", d)))
\* -value: exact, the sign alone changes
Neg(v) == [v EXCEPT !.s = 0 - @]

----------------------------------------------------------------------------
(* The digit field *)

\* str(c) for a byte c: its decimal digits
StrOfByte(c) ==
    IF c < 10 THEN <<c>>
    ELSE IF c < 100 THEN <<c \div 10, c % 10>>
    ELSE <<c \div 100, (c \div 10) % 10, c % 10>>

\* ''.join([str(c) for c in a[3:8]])
Numbers(fr) ==
    StrOfByte(fr[4]) \o StrOfByte(fr[5]) \o StrOfByte(fr[6]) \o StrOfByte(fr[7])
    \o StrOfByte(fr[8])

\* int(numbers)
RECURSIVE IntOf(_)
IntOf(ds) == IF ds = <<>> THEN 0 ELSE 10 * IntOf(SubSeq(ds, 1, Len(ds) - 1)) + ds[Len(ds)]

----------------------------------------------------------------------------
(* process: the decoding of one full frame, lines 86-168 *)

\* the first statements: ba, numbers, value, mode, negative
Fields(fr) ==
    LET ba == frombytes(SubSeq(fr, 1, 3))
        numbers == Numbers(fr)
    IN  [ba |-> ba, numbers |-> numbers, value |-> IntOf(numbers),
         mode |-> slice(ba, 3, 12), negative |-> ba[21]]

\* mode.tobytes() in modes
KnownMode(fr) == tobytes(Fields(fr).mode) \in DOMAIN modes

\* m = modes[mode.tobytes()]; unit = m.unit; value /= m.divisor
Lookup(fr) ==
    LET f == Fields(fr)
        m == modes[tobytes(f.mode)]
    IN  [unit |-> m.unit, value |-> Div(IntVal(f.value), m.divisor),
         negative |-> f.negative]

RuleOhm(ba, st) ==
    IF st.unit = "Ohm"
    THEN IF ba[2] = 1 THEN [st EXCEPT !.unit = "M Ohm", !.value = Div(@, 100)]
         ELSE IF ba[1] = 1 THEN [st EXCEPT !.unit = "k Ohm", !.value = Div(@, 10)]
         ELSE st
    ELSE st

RulePercent(ba, st) ==
    IF st.unit = "%" /\ ba[14] = 1
    THEN [st EXCEPT !.unit = "nF", !.value = Div(@, 1000)]
    ELSE st

RuleNF(ba, st) ==
    IF st.unit = "nF" /\ ba[2] = 1
    THEN [st EXCEPT !.unit = "uF", !.value = Mul(@, 10)]
    ELSE st

RuleVAC(ba, st) ==
    IF st.unit = "V AC"
    THEN [st EXCEPT !.negative = 0,
                    !.value = IF ba[1] = 1 THEN Mul(@, 100) ELSE @]
    ELSE st

RuleMVDC(ba, st) ==
    IF st.unit = "mV DC" /\ ba[12] = 1
    THEN [st EXCEPT !.unit = "A AC", !.negative = 0, !.value = Div(@, 10)]
    ELSE st

RuleVDC(ba, st) ==
    IF st.unit = "V DC" /\ ba[12] = 1
    THEN [st EXCEPT !.unit = "mA AC DC", !.value = Mul(@, 10)]
    ELSE st

RuleMVAC(ba, st) ==
    IF st.unit = "mV AC" /\ ba[12] = 1
    THEN [st EXCEPT !.unit = "A AC DC", !.value = Div(@, 10)]
    ELSE st

RuleVACmA(ba, st) ==
    IF st.unit = "V AC" /\ ba[12] = 1
    THEN [st EXCEPT !.unit = "mA DC"]
    ELSE st

RuleDBm(ba, st) ==
    IF st.unit = "dBm" /\ st.negative # 0
    THEN [st EXCEPT !.unit = "ma AC", !.value = Div(@, 10), !.negative = 0]
    ELSE st

\* the rule left out
RuleUAAC_mut(ba, st) == st

RuleUAAC(ba, st) ==
    IF st.unit = "uA AC" THEN [st EXCEPT !.negative = 0] ELSE st

\* if int(ba[0]): value *= 10
RuleTimesTen(ba, st) ==
    IF ba[0] = 1 THEN [st EXCEPT !.value = Mul(@, 10)] ELSE st

\* if negative: value = -value
RuleSign(ba, st) ==
    IF st.negative # 0 THEN [st EXCEPT !.value = Neg(@)] ELSE st

\* the overflow test on the wrong bit
RuleOverflow_mut(ba, st) ==
    IF ba[12] = 1 THEN [st EXCEPT !.value = OVERFLOW] ELSE st

\* if int(ba[13]): value = 'OVERFLOW'
RuleOverflow(ba, st) ==
    IF ba[13] = 1 THEN [st EXCEPT !.value = OVERFLOW] ELSE st

\* the rules with 'nF' tested before '%'
Rewrite_mut(ba, st) ==
    RuleUAAC(ba, RuleDBm(ba, RuleVACmA(ba, RuleMVAC(ba, RuleVDC(ba, RuleMVDC(ba,
        RuleVAC(ba, RulePercent(ba, RuleNF(ba, RuleOhm(ba, st))))))))))

\* the unit-conditional rules, in the order of the source
Rewrite(ba, st) ==
    RuleUAAC(ba, RuleDBm(ba, RuleVACmA(ba, RuleMVAC(ba, RuleVDC(ba, RuleMVDC(ba,
        RuleVAC(ba, RuleNF(ba, RulePercent(ba, RuleOhm(ba, st))))))))))

\* value and unit as they stand at line 169, for a frame of a known mode
Measure(fr) ==
    LET ba == Fields(fr).ba
        st == RuleOverflow(ba, RuleSign(ba, RuleTimesTen(ba, Rewrite(ba, Lookup(fr)))))
    IN  [value |-> st.value, unit |-> st.unit]

NoMeasurement == [value |-> NoValue, unit |-> ""]

\* the decoding of a full frame: a measurement, or the unknown mode with the magnitude
decode(fr) ==
    IF KnownMode(fr)
    THEN [kind |-> "Measurement", m |-> Measure(fr),
          mode |-> Fields(fr).mode, v |-> Fields(fr).value]
    ELSE [kind |-> "UnknownMode", m |-> NoMeasurement,
          mode |-> Fields(fr).mode, v |-> Fields(fr).value]

----------------------------------------------------------------------------
(* What the stream can deliver *)

\* the bits the decoding rules test, and one they do not
SpecialBits == {0, 1, 2, 12, 13, 14, 21}
FreeBits == SpecialBits \cup {22}

\* two 9-bit patterns that are no key of modes
UnknownPatterns == { <<0,0,1,0,1,1,1,0,1>>, <<0,0,0,0,0,0,0,0,0>> }
Patterns == {ModeEntries[i][1] : i \in DOMAIN ModeEntries} \cup UnknownPatterns

\* five digit bytes, each 0..9
DigitSample(i) == [j \in 1..5 |-> ((i - 1) * (j + 2)) % 10]
\* five bytes, the last no numeral
Malformed == <<0, 0, 0, 1, 12>>

\* the frame whose mode bits (3..11) are pattern, whose other set bits are S
MkFrame(pattern, S, digits) ==
    LET bits == [i \in 0..23 |->
                    IF i \in 3..11 THEN pattern[i - 2]
                    ELSE IF i \in S THEN 1 ELSE 0]
    IN  tobytes(bits) \o digits

FramesOf(patterns, bits, nbits, digitFields) ==
    { MkFrame(p, S, d) : p \in patterns,
                         S \in {T \in SUBSET bits : Cardinality(T) <= nbits},
                         d \in digitFields }

\* frames drawn for the decoder
DecoderFrames ==
    FramesOf(Patterns, FreeBits, MaxBitsSet,
             {DigitSample(i) : i \in 1..NumDigitSamples} \cup {Malformed})

\* frames the device sends to the driver: V AC, V DC, dBm and an unknown mode
DriverPatterns == { ModeEntries[1][1], ModeEntries[5][1], ModeEntries[9][1],
                    <<0,0,1,0,1,1,1,0,1>> }
DriverBits == {0, 12, 13, 21, 22}
DriverFrames == FramesOf(DriverPatterns, DriverBits, DriverBitsSet, {DigitSample(2)})

\* a read cut short by the timeout: a proper prefix of a frame
ShortReads == { SubSeq(MkFrame(ModeEntries[5][1], {}, DigitSample(2)), 1, n) : n \in 0..7 }

\* port.read(8)
Reads8 == DriverFrames \cup ShortReads

----------------------------------------------------------------------------
(* stdout and stderr *)

NoBits == <<>>

Line(kind, n, ba, mode, negative, numbers, ts, value, sep, unit) ==
    [kind |-> kind, n |-> n, ba |-> ba, mode |-> mode, negative |-> negative,
     numbers |-> numbers, ts |-> ts, value |-> value, sep |-> sep, unit |-> unit]

NoLine == Line("none", 0, NoBits, NoBits, 0, <<>>, "", NoValue, "", "")

\* print(len(a))
LenLine(r) == Line("len", Len(r), NoBits, NoBits, 0, <<>>, "", NoValue, "", "")

\* print(f"{ba} {mode} {negative} {numbers}")
RawLine(r) ==
    LET f == Fields(r)
    IN  Line("raw", 0, f.ba, f.mode, f.negative, f.numbers, "", NoValue, "", "")

\* sep = ',' if args.csv else '\t'
Sep(ar) == IF ar.csv THEN "," ELSE "\t"

\* ts = datetime.now().isoformat() + sep, or ''
Timestamp(ar) == IF ar.iso_time THEN "iso" ELSE ""

\* print(f"{ts}{value}{sep}{unit}")
MeasurementLine(ar, r) ==
    LET m == Measure(r)
    IN  Line("measurement", 0, NoBits, NoBits, 0, <<>>, Timestamp(ar), m.value,
             Sep(ar), m.unit)

ErrLine(kind, mode, v) == [kind |-> kind, mode |-> mode, v |-> v]
NoErr == ErrLine("none", NoBits, 0)
\* print('Synchronization lost; retrying', file=sys.stderr)
SyncLost == ErrLine("sync_lost", NoBits, 0)
\* print(f"Unknown measurement mode {mode} (v={value})", file=sys.stderr)
UnknownLine(r) == ErrLine("unknown_mode", Fields(r).mode, Fields(r).value)
\* the traceback of an uncaught exception
Traceback == ErrLine("TypeError", NoBits, 0)

Read(by, size, got) == [by |-> by, size |-> size, got |-> got, timeout |-> timeout]
NoRead == [by |-> "", size |-> 0, got |-> 0, timeout |-> NoTimeout]

NoResult == [kind |-> "", m |-> NoMeasurement, mode |-> NoBits, v |-> 0]

ArgsSet == [csv : BOOLEAN, iso_time : BOOLEAN, raw : BOOLEAN, unix_time : BOOLEAN]

----------------------------------------------------------------------------
(* The program, statement by statement: KeyboardInterrupt can arrive between  *)
(* any two statements, so a step ends wherever what it has done so far can    *)
(* be seen at the exit (a read has returned, a line is printed, the timeout   *)
(* is written).  The locals of the decoding (ba, value, unit, ...) die with   *)
(* the interrupt: lines 86-178 up to the print are one step.                  *)

\* main, up to the call of process: the arguments are parsed and the port is open
Init ==
    /\ pc = "sync_enter"
    /\ args \in ArgsSet
    /\ timeout = NoTimeout
    /\ port_open = TRUE
    /\ exit_status = -1
    /\ a = <<>>
    /\ out = NoLine
    /\ err = NoErr
    /\ rd = NoRead
    /\ retries = 0
    /\ resync = FALSE
    /\ ipc = ""
    /\ frame = <<>>
    /\ res = NoResult

\* synchronize entered without setting the short timeout
SyncEnter_mut ==
    /\ pc = "sync_enter"
    /\ pc' = "sync_read16"
    /\ retries' = 0
    /\ out' = NoLine
    /\ err' = NoErr
    /\ UNCHANGED <<args, timeout, port_open, exit_status, a, rd, resync, ipc, frame, res>>

\* synchronize, line 36: the short timeout is set; read(16) is then in flight
SyncEnter ==
    /\ pc = "sync_enter"
    /\ timeout' = ShortTimeout
    /\ pc' = "sync_read16"
    /\ retries' = 0
    /\ out' = NoLine
    /\ err' = NoErr
    /\ UNCHANGED <<args, port_open, exit_status, a, rd, resync, ipc, frame, res>>

\* synchronize, line 37: read(16) returns, its result is dropped; read(8) is then in flight
SyncRead16 ==
    /\ pc = "sync_read16"
    /\ \E n \in 0..JunkSize : rd' = Read("synchronize", JunkSize, n)
    /\ pc' = "sync_read8"
    /\ out' = NoLine
    /\ err' = NoErr
    /\ UNCHANGED <<args, timeout, port_open, exit_status, a, retries, resync, ipc,
                   frame, res>>

\* synchronize, line 39: read(8) returns and is assigned to a
SyncRead8 ==
    /\ pc = "sync_read8"
    /\ \E r \in Reads8 :
        /\ Len(r) = FrameSize \/ retries < MaxRetries
        /\ a' = r
        /\ rd' = Read("synchronize", FrameSize, Len(r))
    /\ pc' = "sync_print"
    /\ out' = NoLine
    /\ err' = NoErr
    /\ UNCHANGED <<args, timeout, port_open, exit_status, retries, resync, ipc, frame, res>>

\* synchronize, line 40: print(len(a))
SyncPrint ==
    /\ pc = "sync_print"
    /\ out' = LenLine(a)
    /\ err' = NoErr
    /\ pc' = "sync_test"
    /\ UNCHANGED <<args, timeout, port_open, exit_status, a, rd, retries, resync, ipc,
                   frame, res>>

\* synchronize returning on any read that is not empty
SyncTest_mut ==
    /\ pc = "sync_test"
    /\ IF Len(a) > 0
       THEN /\ timeout' = SteadyTimeout
            /\ pc' = "loop_read"
            /\ retries' = retries
       ELSE /\ timeout' = timeout
            /\ pc' = "sync_read8"
            /\ retries' = retries + 1
    /\ out' = NoLine
    /\ err' = NoErr
    /\ UNCHANGED <<args, port_open, exit_status, a, rd, resync, ipc, frame, res>>

\* synchronize, lines 41-44: a full read sets the long timeout and returns to
\* process, whose read(8) is then in flight; a short one goes round the loop
SyncTest ==
    /\ pc = "sync_test"
    /\ IF Len(a) = 8
       THEN /\ timeout' = SteadyTimeout
            /\ pc' = "loop_read"
            /\ retries' = retries
       ELSE /\ timeout' = timeout
            /\ pc' = "sync_read8"
            /\ retries' = retries + 1
    /\ out' = NoLine
    /\ err' = NoErr
    /\ UNCHANGED <<args, port_open, exit_status, a, rd, resync, ipc, frame, res>>

\* process, line 80: read(8) returns and is assigned to a
LoopRead ==
    /\ pc = "loop_read"
    /\ \E r \in Reads8 :
        /\ a' = r
        /\ rd' = Read("process", FrameSize, Len(r))
    /\ pc' = "loop_test"
    /\ out' = NoLine
    /\ err' = NoErr
    /\ retries' = 0
    /\ UNCHANGED <<args, timeout, port_open, exit_status, resync, ipc, frame, res>>

\* process, lines 81-84: the read was short; synchronize is called
LoopShort ==
    /\ pc = "loop_test"
    /\ Len(a) # 8
    /\ err' = SyncLost
    /\ out' = NoLine
    /\ pc' = "sync_enter"
    /\ resync' = TRUE
    /\ UNCHANGED <<args, timeout, port_open, exit_status, a, rd, retries, ipc, frame, res>>

\* process, lines 81-101: a frame, raw output
LoopRaw ==
    /\ pc = "loop_test"
    /\ Len(a) = 8
    /\ args.raw
    /\ out' = RawLine(a)
    /\ err' = NoErr
    /\ pc' = "loop_read"
    /\ UNCHANGED <<args, timeout, port_open, exit_status, a, rd, retries, resync, ipc,
                   frame, res>>

\* the table indexed without the membership test: KeyError, which main does not catch
LoopUnknown_mut ==
    /\ pc = "loop_test"
    /\ Len(a) = 8
    /\ ~args.raw
    /\ ~KnownMode(a)
    /\ out' = NoLine
    /\ err' = ErrLine("KeyError", NoBits, 0)
    /\ pc' = "crashed"
    /\ exit_status' = 1
    /\ UNCHANGED <<args, timeout, port_open, a, rd, retries, resync, ipc, frame, res>>

\* process, lines 81-105: a frame of a mode that is not in modes
LoopUnknown ==
    /\ pc = "loop_test"
    /\ Len(a) = 8
    /\ ~args.raw
    /\ ~KnownMode(a)
    /\ err' = UnknownLine(a)
    /\ out' = NoLine
    /\ pc' = "loop_read"
    /\ UNCHANGED <<args, timeout, port_open, exit_status, a, rd, retries, resync, ipc,
                   frame, res>>

\* process, lines 81-178: a frame of a known mode; it is decoded and printed
LoopMeasurement ==
    /\ pc = "loop_test"
    /\ Len(a) = 8
    /\ ~args.raw
    /\ ~args.unix_time
    /\ KnownMode(a)
    /\ out' = MeasurementLine(args, a)
    /\ err' = NoErr
    /\ pc' = "loop_read"
    /\ UNCHANGED <<args, timeout, port_open, exit_status, a, rd, retries, resync, ipc,
                   frame, res>>

\* process, lines 81-172: with --unix-time, ts = time.time() + sep adds a str to a
\* float: TypeError, which main does not catch
LoopTypeError ==
    /\ pc = "loop_test"
    /\ Len(a) = 8
    /\ ~args.raw
    /\ args.unix_time
    /\ KnownMode(a)
    /\ out' = NoLine
    /\ err' = Traceback
    /\ pc' = "crashed"
    /\ exit_status' = 1
    /\ UNCHANGED <<args, timeout, port_open, a, rd, retries, resync, ipc, frame, res>>

InSynchronize == pc \in {"sync_enter", "sync_read16", "sync_read8", "sync_print", "sync_test"}
InLoop == pc \in {"loop_read", "loop_test"}
Running == InSynchronize \/ InLoop

\* the handler around the loop only: an interrupt inside synchronize is not caught
Interrupt_mut ==
    /\ Running
    /\ ipc' = pc
    /\ IF InLoop
       THEN port_open' = FALSE /\ exit_status' = 0 /\ pc' = "exited" /\ err' = NoErr
       ELSE port_open' = port_open /\ exit_status' = 1 /\ pc' = "crashed"
            /\ err' = ErrLine("KeyboardInterrupt", NoBits, 0)
    /\ out' = NoLine
    /\ UNCHANGED <<args, timeout, a, rd, retries, resync, frame, res>>

\* main, lines 212-214: KeyboardInterrupt, wherever process stands
Interrupt ==
    /\ Running
    /\ ipc' = pc
    /\ port_open' = FALSE
    /\ exit_status' = 0
    /\ pc' = "exited"
    /\ out' = NoLine
    /\ err' = NoErr
    /\ UNCHANGED <<args, timeout, a, rd, retries, resync, frame, res>>

Next ==
    \/ SyncEnter
    \/ SyncRead16
    \/ SyncRead8
    \/ SyncPrint
    \/ SyncTest
    \/ LoopRead
    \/ LoopShort
    \/ LoopRaw
    \/ LoopUnknown
    \/ LoopMeasurement
    \/ LoopTypeError
    \/ Interrupt

Spec == Init /\ [][Next]_vars

----------------------------------------------------------------------------
(* The decoder alone: a frame is drawn, then decoded *)

InitDecode ==
    /\ pc = "frame"
    /\ frame \in DecoderFrames
    /\ res = NoResult
    /\ args = [csv |-> FALSE, iso_time |-> FALSE, raw |-> FALSE, unix_time |-> FALSE]
    /\ timeout = NoTimeout
    /\ port_open = TRUE
    /\ exit_status = -1
    /\ a = <<>>
    /\ out = NoLine
    /\ err = NoErr
    /\ rd = NoRead
    /\ retries = 0
    /\ resync = FALSE
    /\ ipc = ""

Decode ==
    /\ pc = "frame"
    /\ res' = decode(frame)
    /\ pc' = "decoded"
    /\ UNCHANGED <<args, timeout, port_open, exit_status, a, out, err, rd, retries,
                   resync, ipc, frame>>

NextDecode == Decode

SpecDecode == InitDecode /\ [][NextDecode]_vars

----------------------------------------------------------------------------
(* Vocabulary of the properties, read off the frame bytes *)

\* BitField bit i of a frame
HasBit(fr, i) == (fr[(i \div 8) + 1] \div Pow2(i % 8)) % 2 = 1

\* the frame with BitField bit i cleared
ClearBit(fr, i) ==
    IF HasBit(fr, i) THEN [fr EXCEPT ![(i \div 8) + 1] = @ - Pow2(i % 8)] ELSE fr

\* ModeKey: BitField bits 3..11
ModeKeyOf(fr) == [j \in 1..9 |-> IF HasBit(fr, j + 2) THEN 1 ELSE 0]

\* the ModeKey is one of the 15 keys
InTable(fr) == \E i \in DOMAIN ModeEntries : ModeKeyOf(fr) = ModeEntries[i][1]

\* the five digit bytes are numerals
DigitsOK(fr) == \A j \in 4..8 : fr[j] \in 0..9

\* the magnitude of five numerals
Magnitude(fr) == fr[4] * 10000 + fr[5] * 1000 + fr[6] * 100 + fr[7] * 10 + fr[8]

\* the table of the specification: unit and divisor, key by key
SpecTable == <<
    <<"V AC", 10000>>, <<"%", 100>>, <<"mV DC", 1000>>, <<"nF", 100>>,
    <<"V DC", 10000>>, <<"Ohm", 100>>, <<"mV AC DC", 100>>, <<"uA AC", 100>>,
    <<"dBm", 100>>, <<"VF", 10000>>, <<"mV AC", 1000>>, <<"uA DC", 100>>,
    <<"A DC", 10000>>, <<"Hz", 1000>>, <<"uA AC DC", 100>> >>

\* the double M op1 op2 ..., the operations applied from left to right
Scaled(M, ops) == [type |-> "float", s |-> 1, m |-> M, ops |-> ops]
Over(d) == [op |-> "/", by |-> d]
Times(d) == [op |-> "*", by |-> d]

\* the unit the table gives the frame's ModeKey
TableUnit(fr) ==
    SpecTable[CHOOSE i \in DOMAIN ModeEntries : ModeKeyOf(fr) = ModeEntries[i][1]][1]

IsNumber(v) == v.type = "float"
NonNegative(v) == IsNumber(v) /\ v.s = 1

----------------------------------------------------------------------------
(* C4 *)

\* C4: for each of the 15 keys and every magnitude M of five numerals, a frame
\* with that ModeKey and bits 0, 1, 2, 12, 13, 14 and 21 cleared decodes to a
\* Measurement of the table's unit and of value M / divisor.
C4_TableDecoding ==
    (pc = "decoded" /\ InTable(frame) /\ DigitsOK(frame)
        /\ \A b \in SpecialBits : ~HasBit(frame, b)) =>
    \A i \in DOMAIN ModeEntries :
        ModeKeyOf(frame) = ModeEntries[i][1] =>
            /\ res.kind = "Measurement"
            /\ res.m.unit = SpecTable[i][1]
            /\ res.m.value = Scaled(Magnitude(frame), <<Over(SpecTable[i][2])>>)

C4_Witness ==
    /\ pc = "decoded"
    /\ frame = MkFrame(ModeEntries[14][1], {22}, DigitSample(2))
    /\ res.m.unit = "Hz"
    /\ res.m.value = Scaled(34567, <<Over(1000)>>)

----------------------------------------------------------------------------
(* C5 *)

\* C5 as stated: every frame with bit 13 set decodes to a Measurement whose
\* value is OVERFLOW.
C5_Original ==
    (pc = "decoded" /\ HasBit(frame, 13)) =>
        (res.kind = "Measurement" /\ res.m.value = OVERFLOW)

\* C5, amended: every frame with bit 13 set whose ModeKey is one of the 15 keys
\* decodes to a Measurement whose value is OVERFLOW, with the unit the same
\* frame has with bit 13 cleared; with bit 13 set and any other ModeKey the
\* decoding is UnknownMode.
C5_OverflowKnownMode ==
    (pc = "decoded" /\ HasBit(frame, 13)) =>
        IF InTable(frame)
        THEN /\ res.kind = "Measurement"
             /\ res.m.value = OVERFLOW
             /\ res.m.unit # ""
             /\ res.m.unit = decode(ClearBit(frame, 13)).m.unit
        ELSE res.kind = "UnknownMode"

C5_Witness ==
    /\ pc = "decoded"
    /\ HasBit(frame, 13) /\ HasBit(frame, 21) /\ HasBit(frame, 12)
    /\ InTable(frame) /\ Magnitude(frame) = 34567
    /\ res.m.value = OVERFLOW
    /\ res.m.unit = "mA AC DC"

----------------------------------------------------------------------------
(* C6 *)

\* the frames whose output is forced non-negative: V AC, uA AC, mV DC with
\* bit 12 set, dBm with the sign bit set
ForcedNonNegative(fr) ==
    \/ TableUnit(fr) \in {"V AC", "uA AC"}
    \/ TableUnit(fr) = "mV DC" /\ HasBit(fr, 12)
    \/ TableUnit(fr) = "dBm" /\ HasBit(fr, 21)

\* the relation of C6 between a frame with the sign bit set, its decoding r1,
\* and the decoding r0 of the same frame with the sign bit cleared
SignRelation(fr, r1, r0) ==
    IF ForcedNonNegative(fr)
    THEN NonNegative(r1.m.value) /\ NonNegative(r0.m.value)
    ELSE /\ IsNumber(r0.m.value)
         /\ r1.m.value = Neg(r0.m.value)
         /\ r1.m.unit = r0.m.unit

\* C6 as stated: for every frame of a known mode, the sign bit negates the
\* value and keeps the unit, except in the forced modes, whose value is
\* non-negative whatever the sign bit.
C6_Original ==
    (pc = "decoded" /\ InTable(frame) /\ HasBit(frame, 21)) =>
        SignRelation(frame, res, decode(ClearBit(frame, 21)))

\* C6, amended: the same, for the frames whose overflow bit (13) is clear;
\* with bit 13 set the value is OVERFLOW whatever the sign bit.
C6_SignNegates ==
    (pc = "decoded" /\ InTable(frame) /\ HasBit(frame, 21)) =>
        IF HasBit(frame, 13)
        THEN res.m.value = OVERFLOW /\ decode(ClearBit(frame, 21)).m.value = OVERFLOW
        ELSE SignRelation(frame, res, decode(ClearBit(frame, 21)))

C6_Witness ==
    /\ pc = "decoded"
    /\ InTable(frame) /\ HasBit(frame, 21) /\ ~HasBit(frame, 13)
    /\ ~ForcedNonNegative(frame)
    /\ Magnitude(frame) = 34567
    /\ res.m.value.s = -1
    /\ res.m.unit = "A DC"

----------------------------------------------------------------------------
(* C10 *)

\* C10: a frame with ModeKey '%', bits 0, 13 and 21 clear and magnitude M
\* decodes, with bit 14 set, to 'uF' and M/100/1000*10 when bit 2 is set and
\* to 'nF' and M/100/1000 when bit 2 is clear; with bit 14 clear to '%' and
\* M/100 whatever bit 2 is.
C10_ChainedRewrite ==
    (pc = "decoded" /\ ModeKeyOf(frame) = ModeEntries[2][1] /\ DigitsOK(frame)
        /\ ~HasBit(frame, 0) /\ ~HasBit(frame, 13) /\ ~HasBit(frame, 21)) =>
    /\ res.kind = "Measurement"
    /\ res.m.unit = IF ~HasBit(frame, 14) THEN "%"
                    ELSE IF HasBit(frame, 2) THEN "uF" ELSE "nF"
    /\ res.m.value = IF ~HasBit(frame, 14) THEN Scaled(Magnitude(frame), <<Over(100)>>)
                     ELSE IF HasBit(frame, 2)
                          THEN Scaled(Magnitude(frame), <<Over(100), Over(1000), Times(10)>>)
                          ELSE Scaled(Magnitude(frame), <<Over(100), Over(1000)>>)

C10_Witness ==
    /\ pc = "decoded"
    /\ frame = MkFrame(ModeEntries[2][1], {2, 14}, DigitSample(2))
    /\ res.m.unit = "uF"
    /\ res.m.value = Scaled(34567, <<Over(100), Over(1000), Times(10)>>)

----------------------------------------------------------------------------
(* C1 *)

\* the output that carries the bytes of frame r, in the output mode chosen
Forwarded(r) ==
    IF args.raw THEN out = RawLine(r)
    ELSE IF KnownMode(r) THEN out = MeasurementLine(args, r)
    ELSE err = UnknownLine(r)

\* C1: once a read of the loop has come back short, every full 8-byte frame
\* the stream delivers from then on has been forwarded, with its own bytes,
\* by the time the program asks for the next frame (or stops).
C1_NoFrameLost ==
    (resync /\ pc \in {"loop_read", "crashed"} /\ rd.size = FrameSize /\ rd.got = FrameSize)
        => Forwarded(a)

----------------------------------------------------------------------------
(* C2 *)

C2_Step ==
    /\ (pc = "sync_enter" /\ pc' # "exited") =>
            (timeout' = ShortTimeout /\ pc' = "sync_read16" /\ rd' = rd)
    /\ (pc = "sync_read16" /\ pc' # "exited") =>
            (rd'.size = 16 /\ pc' = "sync_read8" /\ timeout' = ShortTimeout /\ a' = a)
    /\ (pc = "sync_read8" /\ pc' # "exited") =>
            /\ rd'.size = 8
            /\ rd'.got = Len(a')
            /\ pc' = "sync_print"
            /\ timeout' = ShortTimeout
    /\ (pc = "sync_print" /\ pc' # "exited") =>
            (pc' = "sync_test" /\ rd' = rd /\ a' = a /\ timeout' = ShortTimeout)
    /\ (pc = "sync_test" /\ pc' # "exited") =>
            /\ rd' = rd
            /\ a' = a
            /\ IF rd.got = 8
               THEN pc' = "loop_read" /\ timeout' = 400
               ELSE pc' = "sync_read8" /\ timeout' = ShortTimeout

\* C2: synchronize sets the short timeout, issues one 16-byte read whose
\* result is dropped whatever its length, then 8-byte reads; it returns right
\* after the first of them that brings 8 bytes, not before and with no further
\* read, and the timeout is then 400.
C2_Synchronize == [][C2_Step]_vars

\* synchronize has returned on a full read that came after two short ones
C2_Witness ==
    /\ pc = "loop_read"
    /\ rd = [by |-> "synchronize", size |-> 8, got |-> 8, timeout |-> ShortTimeout]
    /\ retries = 2
    /\ timeout = 400

----------------------------------------------------------------------------
(* C3 *)

C3_Step ==
    (pc = "loop_test" /\ pc' # "exited" /\ ~args.raw /\ rd.got = 8 /\ ~InTable(a)) =>
        /\ err' = ErrLine("unknown_mode", bitarray(ModeKeyOf(a)), Magnitude(a))
        /\ out' = NoLine
        /\ pc' = "loop_read"
        /\ timeout' = timeout
        /\ exit_status' = -1
        /\ port_open'

\* C3: in decoded output mode a full frame whose ModeKey is not in the table
\* gives one UnknownMode diagnostic with the 9-bit pattern and the magnitude,
\* no Measurement, no exception, stop or resynchronization: the program is at
\* the next 8-byte read with the timeout unchanged.
C3_UnknownModeRecoverable == [][C3_Step]_vars

C3_Witness ==
    /\ pc = "loop_read"
    /\ ~args.raw
    /\ rd.by = "process"
    /\ ~InTable(a)
    /\ err = ErrLine("unknown_mode", bitarray(<<0,0,1,0,1,1,1,0,1>>), 34567)
    /\ timeout = 400

----------------------------------------------------------------------------
(* C7 *)

\* C7: inside synchronize, after its entry, no step has written to stdout or
\* stderr, and the port and the process are as they were.
C7_NoOtherSideEffects ==
    pc \in {"sync_read16", "sync_read8", "sync_print", "sync_test"} =>
        /\ out = NoLine
        /\ err = NoErr
        /\ port_open
        /\ exit_status = -1

----------------------------------------------------------------------------
(* C8 *)

C8_State ==
    /\ pc \in {"sync_read16", "sync_read8", "sync_print", "sync_test"} =>
            timeout = ShortTimeout
    /\ pc \in {"loop_read", "loop_test"} => timeout = 400
    /\ rd.by = "synchronize" => rd.timeout = ShortTimeout
    /\ rd.by = "process" => rd.timeout = 400

C8_Step == (timeout' # timeout) => pc \in {"sync_enter", "sync_test"}

\* C8: no step outside synchronize writes the timeout; every read of
\* synchronize runs under the short timeout and every 8-byte read of the loop
\* of process under 400, the first one and the first after a
\* resynchronization included.
C8_TimeoutOwned == [](C8_State) /\ [][C8_Step]_vars

\* a frame has been read by the loop after a resynchronization
C8_Witness ==
    /\ resync
    /\ pc = "loop_read"
    /\ rd = [by |-> "process", size |-> 8, got |-> 8, timeout |-> 400]
    /\ out.kind = "measurement"

----------------------------------------------------------------------------
(* C9 *)

C9_State ==
    /\ Running => ENABLED Interrupt
    /\ pc = "exited" =>
        (~port_open /\ exit_status = 0 /\ out = NoLine /\ err = NoErr)

C9_Step ==
    /\ (ipc' # ipc) => (pc' = "exited" /\ a' = a /\ rd' = rd /\ timeout' = timeout)
    /\ (pc = "exited") => (pc' = "exited" /\ out' = NoLine /\ err' = NoErr)

\* C9: the interrupt can arrive at every point of the loop and of synchronize;
\* it closes the port and ends the program with status 0, the read in flight
\* or just returned is not processed, and nothing is printed from then on.
C9_CleanCancellation == [](C9_State) /\ [][C9_Step]_vars

\* interrupted when a read of the loop had brought a frame that was not yet handled
C9_Witness ==
    /\ pc = "exited"
    /\ ipc = "loop_test"
    /\ rd.by = "process" /\ rd.got = 8 /\ Len(a) = 8
    /\ ~port_open
    /\ exit_status = 0
    /\ out = NoLine /\ err = NoErr

====
